---- MODULE Spec2Model ----
(***************************************************************************)
(* Model of src/src/App.tsx (UK fuel price map).                           *)
(*                                                                         *)
(* Strings are sequences of one-character strings.  A JavaScript value     *)
(* that may be null is an option: Null is the empty tuple and Some(x) the  *)
(* one-element tuple <<x>>.  A JavaScript number is a record               *)
(*   [k |-> "NaN" | "Inf" | "Fin", neg, m, e]   with value (-1)^neg*m*10^e *)
(* Arithmetic on the decimal form is exact; the input alphabet has no      *)
(* digit 5, so no value lies halfway between two roundings and the exact   *)
(* result is also the one IEEE doubles produce on these inputs.            *)
(***************************************************************************)
EXTENDS Integers, Sequences, FiniteSets, TLC

Null == <<>>
Some(x) == <<x>>
IsNull(o) == o = <<>>
Val(o) == o[1]

\* ------------------------------------------------------------------ bounds
MaxLen == 4
MaxSelections == 2
MaxTiles == 1
MaxPoints == 11
MaxShort == 5

\* ------------------------------------------------------- string primitives
Digits == <<"0", "1", "2", "3", "4", "5", "6", "7", "8", "9">>
DigitChars == {Digits[i] : i \in 1..10}
WhiteSpace == {" ", "\n", "\t"}

DigitVal(c) == (CHOOSE i \in 1..10 : Digits[i] = c) - 1

Drop(s, n) == SubSeq(s, n + 1, Len(s))

Take(s, n) == SubSeq(s, 1, n)

\* String.prototype.startsWith
StartsWith(s, p) == Len(s) >= Len(p) /\ Take(s, Len(p)) = p

\* String.prototype.includes for a single character
Includes(s, c) == \E i \in 1..Len(s) : s[i] = c

\* String.prototype.trimStart
RECURSIVE TrimStart(_)
TrimStart(s) ==
  IF s # <<>> /\ Head(s) \in WhiteSpace THEN TrimStart(Tail(s)) ELSE s

\* length of the longest prefix of s made of decimal digits
RECURSIVE DigitRun(_)
DigitRun(s) ==
  IF s # <<>> /\ Head(s) \in DigitChars THEN 1 + DigitRun(Tail(s)) ELSE 0

\* value of a sequence of decimal digits
RECURSIVE DigitsToInt(_)
DigitsToInt(s) ==
  IF s = <<>> THEN 0
  ELSE 10 * DigitsToInt(Take(s, Len(s) - 1)) + DigitVal(s[Len(s)])

\* decimal digits of a natural number, no leading zero
RECURSIVE IntToDigits(_)
IntToDigits(n) ==
  IF n < 10 THEN <<Digits[n + 1]>>
  ELSE IntToDigits(n \div 10) \o <<Digits[(n % 10) + 1]>>

RECURSIVE Zeros(_)
Zeros(n) == IF n <= 0 THEN <<>> ELSE <<"0">> \o Zeros(n - 1)

RECURSIVE Pow10(_)
Pow10(n) == IF n <= 0 THEN 1 ELSE 10 * Pow10(n - 1)

RECURSIVE StripTrailingZeros(_)
StripTrailingZeros(s) ==
  IF Len(s) > 1 /\ s[Len(s)] = "0" THEN StripTrailingZeros(Take(s, Len(s) - 1))
  ELSE s

\* ------------------------------------------------------------------ numbers
NaN == [k |-> "NaN", neg |-> FALSE, m |-> 0, e |-> 0]
Infinity(neg) == [k |-> "Inf", neg |-> neg, m |-> 0, e |-> 0]
Fin(neg, m, e) == [k |-> "Fin", neg |-> neg, m |-> m, e |-> e]

\* Number.isFinite
IsFinite(x) == x.k = "Fin"

\* number of decimal digits of a natural number
RECURSIVE NumDigits(_)
NumDigits(n) == IF n < 10 THEN 1 ELSE 1 + NumDigits(n \div 10)

\* decimal order of magnitude of a non-zero finite number: 10^Mag <= |x| < 10^(Mag+1)
Mag(x) == NumDigits(x.m) - 1 + x.e

\* the mantissa m of n digits scaled to exactly w significant digits
Lead(m, n, w) == IF n >= w THEN m \div Pow10(n - w) ELSE m * Pow10(w - n)

\* a decimal of magnitude mag and leading digits lead5 as a double: beyond
\* the largest double (1.7976931348623157e308) it is Infinity, below the
\* smallest subnormal it is zero
Rounded(x, mag, lead5) ==
  IF mag > 308 \/ (mag = 308 /\ lead5 > 17976) THEN Infinity(x.neg)
  ELSE IF mag < -324 THEN Fin(x.neg, 0, 0)
  ELSE x

ToDouble(neg, m, e) ==
  IF m = 0 THEN Fin(neg, 0, 0)
  ELSE Rounded(Fin(neg, m, e), NumDigits(m) - 1 + e, Lead(m, NumDigits(m), 5))

InfinityLit == <<"I", "n", "f", "i", "n", "i", "t", "y">>

\* the ExponentPart at the head of s, 0 when s does not start with one
ExponentOf(s) ==
  IF Len(s) >= 2 /\ s[1] \in {"e", "E"} /\ s[2] \in DigitChars
    THEN DigitsToInt(Take(Tail(s), DigitRun(Tail(s))))
  ELSE IF Len(s) >= 3 /\ s[1] \in {"e", "E"} /\ s[2] = "+" /\ s[3] \in DigitChars
    THEN DigitsToInt(Take(Drop(s, 2), DigitRun(Drop(s, 2))))
  ELSE IF Len(s) >= 3 /\ s[1] \in {"e", "E"} /\ s[2] = "-" /\ s[3] \in DigitChars
    THEN 0 - DigitsToInt(Take(Drop(s, 2), DigitRun(Drop(s, 2))))
  ELSE 0

\* s starts with ni integer digits, then (when dot) a point and nf digits
ParseDigits(neg, s, ni, dot, nf) ==
  IF ni = 0 /\ nf = 0 THEN NaN
  ELSE ToDouble(neg,
                DigitsToInt(Take(s, ni) \o (IF dot THEN SubSeq(s, ni + 2, ni + 1 + nf) ELSE <<>>)),
                ExponentOf(Drop(s, IF dot THEN ni + 1 + nf ELSE ni)) - nf)

\* s starts with ni integer digits
ParseFraction(neg, s, ni) ==
  IF ni < Len(s) /\ s[ni + 1] = "."
  THEN ParseDigits(neg, s, ni, TRUE, DigitRun(Drop(s, ni + 1)))
  ELSE ParseDigits(neg, s, ni, FALSE, 0)

ParseUnsigned(neg, s) ==
  IF StartsWith(s, InfinityLit) THEN Infinity(neg)
  ELSE ParseFraction(neg, s, DigitRun(s))

ParseSigned(s) ==
  IF s # <<>> /\ Head(s) \in {"+", "-"} THEN ParseUnsigned(Head(s) = "-", Tail(s))
  ELSE ParseUnsigned(FALSE, s)

\* Number.parseFloat: skips leading white space, reads the longest prefix
\* that is a StrDecimalLiteral, NaN when there is none
parseFloat(str) == ParseSigned(TrimStart(str))

\* the quotient parsed / 100 of a finite number
DivideBy100(x) == ToDouble(x.neg, x.m, x.e - 2)

\* digit string ds in exponent notation with decimal exponent mag
Exponential(neg, ds, mag) ==
  (IF neg THEN <<"-">> ELSE <<>>)
  \o <<Head(ds)>>
  \o (IF Len(ds) > 1 THEN <<".">> \o Tail(ds) ELSE <<>>)
  \o <<"e", "+">> \o IntToDigits(mag)

\* Number::toString of a finite number with |x| >= 10^21: exponent notation
NumberToString(x) == Exponential(x.neg, StripTrailingZeros(IntToDigits(x.m)), Mag(x))

\* round(m * 10^shift) for m > 0, ties upwards, as a digit string
ScaledDigits(m, shift) ==
  IF shift >= 0 THEN IntToDigits(m) \o Zeros(shift)
  ELSE IF 0 - shift > 8 THEN <<"0">>
  ELSE IntToDigits((2 * m + Pow10(0 - shift)) \div (2 * Pow10(0 - shift)))

\* the digit string n (padded to more than `digits` digits) with a point
\* before its last `digits` digits
PointBefore(neg, n, digits) ==
  (IF neg THEN <<"-">> ELSE <<>>)
  \o Take(n, Len(n) - digits)
  \o (IF digits > 0 THEN <<".">> \o Drop(n, Len(n) - digits) ELSE <<>>)

PadLeft(n, width) == Zeros(width - Len(n)) \o n

\* Number.prototype.toFixed(digits) of a finite number
toFixed(x, digits) ==
  IF x.m = 0 THEN PointBefore(FALSE, Zeros(digits + 1), digits)
  ELSE IF Mag(x) >= 21 THEN NumberToString(x)
  ELSE PointBefore(x.neg, PadLeft(ScaledDigits(x.m, x.e + digits), digits + 1), digits)

\* sign of a finite number: -1, 0 or 1
Sgn(x) == IF x.m = 0 THEN 0 ELSE IF x.neg THEN -1 ELSE 1

\* order of two integers: -1, 0 or 1
IntCmp(a, b) == IF a = b THEN 0 ELSE IF a < b THEN -1 ELSE 1

\* order of two non-zero magnitudes, mantissas compared on nine digits
AbsCmp(a, b) ==
  IF Mag(a) # Mag(b) THEN IntCmp(Mag(a), Mag(b))
  ELSE IntCmp(Lead(a.m, NumDigits(a.m), 9), Lead(b.m, NumDigits(b.m), 9))

\* the sign of a - b for finite numbers
NumCmp(a, b) ==
  IF Sgn(a) # Sgn(b) THEN IntCmp(Sgn(a), Sgn(b))
  ELSE IF Sgn(a) = 0 THEN 0
  ELSE IF Sgn(a) = 1 THEN AbsCmp(a, b)
  ELSE AbsCmp(b, a)

\* a === b for finite numbers
NumEq(a, b) == NumCmp(a, b) = 0

\* a finite number as an integer count of 0.0001 (exact when x.e >= -4)
Units(x) == Sgn(x) * (IF x.e + 4 >= 0 THEN x.m * Pow10(x.e + 4)
                      ELSE x.m \div Pow10(0 - (x.e + 4)))

\* ------------------------------------------------------- App.tsx, helpers
priceKeys ==
  << "forecourts.fuel_price.E5", "forecourts.fuel_price.E10",
     "forecourts.fuel_price.B7P", "forecourts.fuel_price.B7S",
     "forecourts.fuel_price.B10", "forecourts.fuel_price.HVO" >>

\* key.split('.').pop() for the six price keys
LastSegment(key) ==
  CASE key = "forecourts.fuel_price.E5"  -> "E5"
    [] key = "forecourts.fuel_price.E10" -> "E10"
    [] key = "forecourts.fuel_price.B7P" -> "B7P"
    [] key = "forecourts.fuel_price.B7S" -> "B7S"
    [] key = "forecourts.fuel_price.B10" -> "B10"
    [] key = "forecourts.fuel_price.HVO" -> "HVO"

\* row[key] / prices[key]: undefined (Null) when the key is absent
Get(obj, key) == IF key \in DOMAIN obj THEN Some(obj[key]) ELSE Null

\* JavaScript truthiness of a string-or-undefined
Truthy(o) == ~IsNull(o) /\ Val(o) # <<>>

\* value ?? ''
OrEmpty(o) == IF IsNull(o) THEN <<>> ELSE Val(o)

FiniteOrNullNoCheck(parsed) == Some(parsed)

\* Number.isFinite(parsed) ? parsed : null
FiniteOrNull(parsed) == IF IsFinite(parsed) THEN Some(parsed) ELSE Null

toNumber(value) == FiniteOrNull(parseFloat(value))

RECURSIVE StripLeadingApostrophes(_)
StripLeadingApostrophes(s) ==
  IF s # <<>> /\ Head(s) = "'" THEN StripLeadingApostrophes(Tail(s)) ELSE s

\* value.replace(/^'+/, '')
normalizePrice(value) == StripLeadingApostrophes(value)

Pound == <<"£">>

\* the tail of formatPriceLabel and formatPriceValue once value is parsed
PoundsOrRaw(value, parsed, digits) ==
  IF ~IsFinite(parsed) THEN value
  ELSE Pound \o toFixed(DivideBy100(parsed), digits)

formatPriceLabel(value) == PoundsOrRaw(value, parseFloat(value), 2)

\* the tail of toPounds once value is parsed
PoundsOrNull(parsed) ==
  IF ~IsFinite(parsed) THEN Null
  ELSE Some(DivideBy100(parsed))

toPounds(value) == PoundsOrNull(parseFloat(value))

formatPriceValue(value) == PoundsOrRaw(value, parseFloat(value), 3)

preferred == <<"E10", "E5", "B7S", "B7P", "B10", "HVO">>

preferredE5First == <<"E5", "E10", "B7S", "B7P", "B10", "HVO">>

\* the loop of getDisplayPrice from position i of the order on
RECURSIVE DisplayPriceFrom(_, _, _)
DisplayPriceFrom(order, prices, i) ==
  IF i > Len(order) THEN Null
  ELSE IF Truthy(Get(prices, order[i])) THEN Some(formatPriceLabel(prices[order[i]]))
  ELSE DisplayPriceFrom(order, prices, i + 1)

getDisplayPrice(prices) == DisplayPriceFrom(preferred, prices, 1)

\* the loop of getDisplayPriceValue from position i of the order on
RECURSIVE DisplayPriceValueFrom(_, _, _)
DisplayPriceValueFrom(order, prices, i) ==
  IF i > Len(order) THEN Null
  ELSE IF Truthy(Get(prices, order[i])) THEN toPounds(prices[order[i]])
  ELSE DisplayPriceValueFrom(order, prices, i + 1)

getDisplayPriceValueE5First(prices) == DisplayPriceValueFrom(preferredE5First, prices, 1)

getDisplayPriceValue(prices) == DisplayPriceValueFrom(preferred, prices, 1)

DefaultColor == [kind |-> "hex", hex |-> "#16a34a", num |-> 0, den |-> 1]

\* `hsl(${hue}, 70%, 45%)` with the hue kept as the exact fraction num/den
Hsl(num, den) == [kind |-> "hsl", hex |-> "", num |-> num, den |-> den]

Min2(a, b) == IF a <= b THEN a ELSE b

Max2(a, b) == IF a >= b THEN a ELSE b

\* hue 120 - 120 * t for t = n/d without the clamp
HueNoClamp(n, d) == Hsl(120 * d - 120 * n, d)

\* hue 120 - 120 * t for t = n/d (d > 0) clamped to [0, 1], as a fraction
Hue(n, d) == Hsl(120 * d - 120 * Min2(d, Max2(0, n)), d)

priceToColorNoClamp(value, min, max) ==
  IF ~IsFinite(value) \/ NumEq(min, max) THEN DefaultColor
  ELSE HueNoClamp(Units(value) - Units(min), Units(max) - Units(min))

\* t = (value - min) / (max - min); the fraction is kept with a positive
\* denominator
priceToColor(value, min, max) ==
  IF ~IsFinite(value) \/ NumEq(min, max) THEN DefaultColor
  ELSE IF Units(max) < Units(min)
       THEN Hue(Units(min) - Units(value), Units(min) - Units(max))
  ELSE Hue(Units(value) - Units(min), Units(max) - Units(min))

\* ------------------------------------------------ App.tsx, row to point
LatKey == "forecourts.location.latitude"
LngKey == "forecourts.location.longitude"
AddressKeys ==
  << "forecourts.location.address_line_1", "forecourts.location.address_line_2",
     "forecourts.location.city", "forecourts.location.county" >>

UnknownSite == <<"U", "n", "k", "n", "o", "w", "n", " ", "s", "i", "t", "e">>
UnknownBrand == <<"U", "n", "k", "n", "o", "w", "n", " ", "b", "r", "a", "n", "d">>

\* row[key] || fallback
OrElse(row, key, fallback) ==
  IF Truthy(Get(row, key)) THEN row[key] ELSE fallback

\* [..].filter(Boolean).join(', ') over the address columns from position i on
RECURSIVE JoinAddress(_, _, _)
JoinAddress(row, i, first) ==
  IF i > Len(AddressKeys) THEN <<>>
  ELSE IF Truthy(Get(row, AddressKeys[i]))
       THEN (IF first THEN <<>> ELSE <<",", " ">>) \o row[AddressKeys[i]]
            \o JoinAddress(row, i + 1, FALSE)
  ELSE JoinAddress(row, i + 1, first)

\* the prices record of a row: one entry per price column with a truthy
\* value, normalised after the truthiness test
PricesOf(row) ==
  LET present == {i \in 1..Len(priceKeys) : Truthy(Get(row, priceKeys[i]))}
      codes   == {LastSegment(priceKeys[i]) : i \in present}
  IN  [c \in codes |->
         normalizePrice(row[CHOOSE k \in DOMAIN row :
                              k \in {priceKeys[i] : i \in present} /\ LastSegment(k) = c])]

\* Object.keys(prices).length > 0
HasPrices(prices) == DOMAIN prices # {}

PointId(row, lat, lng) ==
  IF Truthy(Get(row, "forecourts.node_id"))
  THEN [node |-> row["forecourts.node_id"], at |-> Null]
  ELSE [node |-> <<>>, at |-> Some(<<lat, lng>>)]

\* the body of the loop over results.data for a row whose coordinates parsed
BuildPointWith(row, lat, lng, prices) ==
  [ id                |-> PointId(row, lat, lng),
    lat               |-> lat,
    lng               |-> lng,
    tradingName       |-> OrElse(row, "forecourts.trading_name", UnknownSite),
    brand             |-> OrElse(row, "forecourts.brand_name", UnknownBrand),
    address           |-> JoinAddress(row, 1, TRUE),
    postcode          |-> OrElse(row, "forecourts.location.postcode", <<>>),
    updated           |-> OrElse(row, "latest_update_timestamp", <<>>),
    prices            |-> prices,
    hasPrices         |-> HasPrices(prices),
    displayPrice      |-> IF HasPrices(prices) THEN getDisplayPrice(prices) ELSE Null,
    displayPriceValue |-> IF HasPrices(prices) THEN getDisplayPriceValue(prices) ELSE Null ]

BuildPoint(row, lat, lng) == BuildPointWith(row, lat, lng, PricesOf(row))

\* one iteration of the loop: a row whose latitude or longitude is null is
\* skipped, another one is pushed
PushRow(row, lat, lng) ==
  IF IsNull(lat) \/ IsNull(lng) THEN <<>>
  ELSE <<BuildPoint(row, Val(lat), Val(lng))>>

\* the loop over results.data
RECURSIVE PointsOf(_)
PointsOf(data) ==
  IF data = <<>> THEN <<>>
  ELSE PushRow(Head(data),
               toNumber(OrEmpty(Get(Head(data), LatKey))),
               toNumber(OrEmpty(Get(Head(data), LngKey))))
       \o PointsOf(Tail(data))

\* ------------------------------------------------ App.tsx, colour scale
\* stable insertion of x into an ascending sequence (comparator a - b)
RECURSIVE InsertSorted(_, _)
InsertSorted(x, s) ==
  IF s = <<>> THEN <<x>>
  ELSE IF NumCmp(x, Head(s)) < 0 THEN <<x>> \o s
  ELSE <<Head(s)>> \o InsertSorted(x, Tail(s))

\* [...values].sort((a, b) => a - b)
RECURSIVE SortAscending(_)
SortAscending(values) ==
  IF values = <<>> THEN <<>>
  ELSE InsertSorted(values[Len(values)], SortAscending(Take(values, Len(values) - 1)))

\* rows.map(row => row.displayPriceValue).filter(value => value !== null)
RECURSIVE NumericValues(_)
NumericValues(points) ==
  IF points = <<>> THEN <<>>
  ELSE (IF IsNull(Head(points).displayPriceValue) THEN <<>>
        ELSE <<Val(Head(points).displayPriceValue)>>)
       \o NumericValues(Tail(points))

\* pick(p) for p = tenths/10: sorted[Math.floor(p * (sorted.length - 1))]
pick(sorted, tenths) == sorted[((tenths * (Len(sorted) - 1)) \div 10) + 1]

RangeOfSortedMinMax(sorted) == Some([min |-> pick(sorted, 0), max |-> pick(sorted, 10)])

RangeOfSorted(sorted) == Some([min |-> pick(sorted, 1), max |-> pick(sorted, 9)])

RangeOf(values) ==
  IF Len(values) = 0 THEN Null ELSE RangeOfSorted(SortAscending(values))

priceRange(points) == RangeOf(NumericValues(points))

\* the colour argument of buildPriceIcon for a marker
MarkerColor(point, range) ==
  IF ~IsNull(point.displayPriceValue) /\ ~IsNull(range)
  THEN priceToColor(Val(point.displayPriceValue), Val(range).min, Val(range).max)
  ELSE DefaultColor

\* ------------------------------------------------ sample files and rows
At(lat, lng) == (LatKey :> lat) @@ (LngKey :> lng)

RowEsso ==
  At(<<"5", "1", ".", "7">>, <<"-", "0", ".", "1">>) @@ ("forecourts.node_id" :> <<"n", "1">>)
  @@ ("forecourts.trading_name" :> <<"E", "s", "s", "o">>)
  @@ ("forecourts.location.address_line_1" :> <<"1", " ", "A">>)
  @@ ("forecourts.location.address_line_2" :> <<>>)
  @@ ("forecourts.location.city" :> <<"E", "l", "y">>)
  @@ ("forecourts.fuel_price.E10" :> <<"1", "4", "7", ".", "9">>)
  @@ ("forecourts.fuel_price.E5" :> <<"'", "1", "6", "7", ".", "9">>)
  @@ ("forecourts.fuel_price.B7P" :> <<>>)
RowEmptyLat == At(<<>>, <<"1">>) @@ ("forecourts.fuel_price.E10" :> <<"1", "4", "1">>)
RowNoLat == (LngKey :> <<"1">>) @@ ("forecourts.node_id" :> <<"n", "3">>)
RowBadLat == At(<<"x", "1">>, <<"2">>)
RowPrefix == At(<<"1", "x">>, <<" ", "2">>) @@ ("forecourts.fuel_price.B7S" :> <<"1", "6", "1", ".", "7">>)
RowInfinity == At(<<"I", "n", "f", "i", "n", "i", "t", "y">>, <<"1">>)
RowOverflow == At(<<"3">>, <<"-", "1", "e", "9", "9", "9">>)
RowApostrophe == At(<<"3">>, <<"-", "2">>) @@ ("forecourts.fuel_price.B7S" :> <<"'">>)
RowText == At(<<".", "7", "e", "1">>, <<"-", "3">>) @@ ("forecourts.fuel_price.E10" :> <<"x">>)
RowNoLng == At(<<"1">>, <<"-">>)

Complete(data, errors) ==
  [kind |-> "complete", data |-> data, errors |-> errors, message |-> ""]
Failed(message) ==
  [kind |-> "error", data |-> <<>>, errors |-> <<>>, message |-> message]

\* a file: its name, its text and what Papa.parse yields for that text
Files ==
  { [name |-> "a.csv", text |-> <<"a", ",", "b">>,
     result |-> Complete(<<RowEsso, RowEmptyLat, RowPrefix, RowNoLng>>, <<>>)],
    [name |-> "b.csv", text |-> <<"\n", "a", ",", "b", "\n">>,
     result |-> Complete(<<RowApostrophe, RowNoLat, RowText, RowBadLat>>,
                         <<"Too few fields", "Quoted field unterminated">>)],
    [name |-> "c.csv", text |-> <<",">>,
     result |-> Complete(<<RowInfinity, RowOverflow>>, <<"Too many fields">>)],
    [name |-> "d.html", text |-> <<" ", "\n", "<", "h", "t", "m", "l", ">", ",">>,
     result |-> Complete(<<RowEsso>>, <<>>)],
    [name |-> "e.html", text |-> <<"<", "!", "D", "O", "C", "T", "Y", "P", "E", ",">>,
     result |-> Complete(<<RowText>>, <<>>)],
    [name |-> "f.txt", text |-> <<"a", "b">>,
     result |-> Complete(<<RowPrefix>>, <<>>)],
    [name |-> "g.csv", text |-> <<"x", "<", "h", "t", "m", "l", ",">>,
     result |-> Failed("Stream error")] }

\* --------------------------------------------------------------- the state
VARIABLES
  fileName,    \* useState fileName
  rows,        \* useState rows: the displayed points
  parseError,  \* useState parseError
  tileCounts,  \* useState tileCounts
  readers,     \* FileReaders whose read has not called back yet
  selected,    \* number of handleFile calls so far
  completed,   \* history: the last two callbacks of readers, latest first
  arg,         \* input of the function under study (function specifications)
  ret          \* its result, Null before the call

vars == <<fileName, rows, parseError, tileCounts, readers, selected, completed, arg, ret>>

NotCsvMessage ==
  "This file does not look like the CSV (it looks like HTML or has no commas). Please re-download the CSV and try again."
ReadErrorMessage == "Could not read the file."

Doctype == <<"<", "!", "D", "O", "C", "T", "Y", "P", "E">>
HtmlTag == <<"<", "h", "t", "m", "l">>

AppInit ==
  /\ fileName = ""
  /\ rows = <<>>
  /\ parseError = ""
  /\ tileCounts = [loaded |-> 0, error |-> 0]
  /\ readers = {}
  /\ selected = 0
  /\ completed = <<>>

Init == AppInit /\ arg = Null /\ ret = Null

\* handleFile up to reader.readAsText(file)
handleFile(file) ==
  /\ selected < MaxSelections
  /\ fileName' = file.name
  /\ parseError' = ""
  /\ readers' = readers \cup {[id |-> selected + 1, file |-> file]}
  /\ selected' = selected + 1
  /\ UNCHANGED <<rows, tileCounts, completed, arg, ret>>

\* the reader r has called back
Done(r, kind) ==
  /\ readers' = readers \ {r}
  /\ completed' = <<[id |-> r.id, kind |-> kind, name |-> r.file.name]>> \o (IF completed = <<>> THEN <<>> ELSE <<Head(completed)>>)

LooksNotCsvNoHtmlTest(text) ==
  LET trimmed == TrimStart(text)
  IN  ~Includes(trimmed, ",") \/ StartsWith(trimmed, Doctype)

\* the test at the head of reader.onload
LooksNotCsv(text) ==
  LET trimmed == TrimStart(text)
  IN  ~Includes(trimmed, ",") \/ StartsWith(trimmed, Doctype) \/ StartsWith(trimmed, HtmlTag)

\* reader.onload, text rejected before the parser
OnLoadReject(r) ==
  /\ LooksNotCsv(r.file.text)
  /\ parseError' = NotCsvMessage
  /\ rows' = <<>>
  /\ Done(r, "reject")
  /\ UNCHANGED <<fileName, tileCounts, selected, arg, ret>>

OnLoadCompleteKeepRowsOnError(r) ==
  /\ ~LooksNotCsv(r.file.text)
  /\ r.file.result.kind = "complete"
  /\ IF Len(r.file.result.errors) # 0
     THEN parseError' = r.file.result.errors[1] /\ rows' = rows
     ELSE parseError' = parseError /\ rows' = PointsOf(r.file.result.data)
  /\ Done(r, "complete")
  /\ UNCHANGED <<fileName, tileCounts, selected, arg, ret>>

\* reader.onload, Papa.parse runs and calls complete(results)
OnLoadComplete(r) ==
  /\ ~LooksNotCsv(r.file.text)
  /\ r.file.result.kind = "complete"
  /\ parseError' = IF Len(r.file.result.errors) # 0
                   THEN r.file.result.errors[1] ELSE parseError
  /\ rows' = PointsOf(r.file.result.data)
  /\ Done(r, "complete")
  /\ UNCHANGED <<fileName, tileCounts, selected, arg, ret>>

OnLoadParseErrorClearsRows(r) ==
  /\ ~LooksNotCsv(r.file.text)
  /\ r.file.result.kind = "error"
  /\ parseError' = r.file.result.message
  /\ rows' = <<>>
  /\ Done(r, "parseerror")
  /\ UNCHANGED <<fileName, tileCounts, selected, arg, ret>>

\* reader.onload, Papa.parse runs and calls error(error)
OnLoadParseError(r) ==
  /\ ~LooksNotCsv(r.file.text)
  /\ r.file.result.kind = "error"
  /\ parseError' = r.file.result.message
  /\ Done(r, "parseerror")
  /\ UNCHANGED <<fileName, rows, tileCounts, selected, arg, ret>>

\* reader.onerror
ReaderOnError(r) ==
  /\ parseError' = ReadErrorMessage
  /\ Done(r, "readerror")
  /\ UNCHANGED <<fileName, rows, tileCounts, selected, arg, ret>>

\* TileLayer tileload
TileLoad ==
  /\ tileCounts.loaded + tileCounts.error < MaxTiles
  /\ tileCounts' = [tileCounts EXCEPT !.loaded = @ + 1]
  /\ UNCHANGED <<fileName, rows, parseError, readers, selected, completed, arg, ret>>

\* TileLayer tileerror
TileError ==
  /\ tileCounts.loaded + tileCounts.error < MaxTiles
  /\ tileCounts' = [tileCounts EXCEPT !.error = @ + 1]
  /\ UNCHANGED <<fileName, rows, parseError, readers, selected, completed, arg, ret>>

Next ==
  \/ \E file \in Files : handleFile(file)
  \/ \E r \in readers : OnLoadReject(r)
  \/ \E r \in readers : OnLoadComplete(r)
  \/ \E r \in readers : OnLoadParseError(r)
  \/ \E r \in readers : ReaderOnError(r)
  \/ TileLoad
  \/ TileError

Spec == Init /\ [][Next]_vars

\* ------------------------------------------- specifications of functions
\* Each applies one function of App.tsx to an input drawn at Init; the
\* application state stays as constructed.
Alphabet == {"0", "1", "7", ".", "-", "e", " ", "x"}

StringsUpTo(n) == UNION {[1..k -> Alphabet] : k \in 0..n}

\* raw price strings: every string over the alphabet up to MaxLen, the
\* literals that parse to a non-finite number, a price of 10^24 pence and an
\* everyday price
PriceStrings(n) ==
  StringsUpTo(n) \cup {InfinityLit, <<"-">> \o InfinityLit, <<"1", "e", "9", "9", "9">>, <<"-", "7", "e", "9", "9", "9">>,
                          <<"1", "e", "2", "4">>, <<"1", "4", "7", ".", "9">>}

app == <<fileName, rows, parseError, tileCounts, readers, selected, completed>>

\* formatPriceLabel, formatPriceValue and toPounds on one raw price string
InitFormat == AppInit /\ arg \in PriceStrings(MaxLen) /\ ret = Null

FormatPrice ==
  /\ ret = Null
  /\ ret' = Some([label  |-> formatPriceLabel(arg),
                  value  |-> formatPriceValue(arg),
                  pounds |-> toPounds(arg)])
  /\ UNCHANGED <<app, arg>>

NextFormat == FormatPrice

SpecFormat == InitFormat /\ [][NextFormat]_vars

\* getDisplayPrice and getDisplayPriceValue on one prices record
FuelTypes == {"E5", "E10", "B7P", "B7S", "B10", "HVO"}

DisplayPrices == {<<>>, <<"1">>, <<"7">>, <<"x">>}

PriceMaps(values) == UNION {[D -> values] : D \in SUBSET FuelTypes}

InitDisplay == AppInit /\ arg \in PriceMaps(DisplayPrices) /\ ret = Null

DisplayPrice ==
  /\ ret = Null
  /\ ret' = Some([label |-> getDisplayPrice(arg), value |-> getDisplayPriceValue(arg)])
  /\ UNCHANGED <<app, arg>>

NextDisplay == DisplayPrice

SpecDisplay == InitDisplay /\ [][NextDisplay]_vars

\* the loop body of complete() on one row with valid coordinates
PriceColumns == {priceKeys[i] : i \in 1..Len(priceKeys)}

RowPrices == {<<>>, <<"'">>, <<"'", "'">>, <<"'", "1", "7">>, <<"x">>}

PriceRows(values) ==
  {At(<<"1">>, <<"-", "7">>) @@ cols :
     cols \in UNION {[D -> values] : D \in SUBSET PriceColumns}}

InitRow == AppInit /\ arg \in PriceRows(RowPrices) /\ ret = Null

BuildRow ==
  /\ ret = Null
  /\ ret' = Some(PointsOf(<<arg>>))
  /\ UNCHANGED <<app, arg>>

NextRow == BuildRow

SpecRow == InitRow /\ [][NextRow]_vars

\* complete() on a data set given by its E10 price column, then priceRange
\* on the displayed points
RangePrices == {<<"x">>, <<"7">>, <<"1", "7">>, <<"7", "1">>}

RECURSIVE Repeat(_, _)
Repeat(x, n) == IF n <= 0 THEN <<>> ELSE <<x>> \o Repeat(x, n - 1)

\* c prices of 71, b of 17, d texts and a of 7, the dearest first
Descending(a, b, c, d) ==
  Repeat(<<"7", "1">>, c) \o Repeat(<<"1", "7">>, b) \o Repeat(<<"x">>, d) \o Repeat(<<"7">>, a)

\* every column of up to `short` prices in any order, and the columns of up
\* to n prices in descending order with at most one text among them
RangeInputs(n, short) ==
  UNION {[1..k -> RangePrices] : k \in 0..short}
  \cup {Descending(q[1], q[2], q[3], q[4]) :
          q \in {t \in (0..n) \X (0..n) \X (0..n) \X (0..1) : t[1] + t[2] + t[3] + t[4] <= n}}

RowPriced(price) == At(<<"1">>, <<"-", "7">>) @@ ("forecourts.fuel_price.E10" :> price)

DataOf(column) == [i \in 1..Len(column) |-> RowPriced(column[i])]

InitRange == AppInit /\ arg \in RangeInputs(MaxPoints, MaxShort) /\ ret = Null

ComputeRange ==
  /\ ret = Null
  /\ rows' = PointsOf(DataOf(arg))
  /\ ret' = Some(priceRange(rows'))
  /\ UNCHANGED <<fileName, parseError, tileCounts, readers, selected, completed, arg>>

NextRange == ComputeRange

SpecRange == InitRange /\ [][NextRange]_vars

\* the marker colour of two points under one range
ColourPrices == {<<"0">>, <<"1">>, <<"7">>, <<"1", "0">>, <<"1", "e", "1">>, <<"1", "7">>, <<"-", "1">>, <<"1", ".", "7">>}

ColourValues(prices) == {toPounds(s) : s \in prices}

ColourRanges(values) ==
  {Some([min |-> Val(p[1]), max |-> Val(p[2])]) :
     p \in {q \in values \X values : NumCmp(Val(q[1]), Val(q[2])) <= 0}}

InitColour ==
  /\ AppInit
  /\ arg \in [a     : ColourValues(ColourPrices) \cup {Null},
              b     : ColourValues(ColourPrices) \cup {Null},
              range : ColourRanges(ColourValues(ColourPrices)) \cup {Null}]
  /\ ret = Null

ComputeColour ==
  /\ ret = Null
  /\ ret' = Some(<<MarkerColor([displayPriceValue |-> arg.a], arg.range),
                   MarkerColor([displayPriceValue |-> arg.b], arg.range)>>)
  /\ UNCHANGED <<app, arg>>

NextColour == ComputeColour

SpecColour == InitColour /\ [][NextColour]_vars

\* ------------------------------------------------------------- properties
\* the latest callback was of the given kind, for the file of that name
Latest(kind, name) ==
  completed # <<>> /\ Head(completed).kind = kind /\ Head(completed).name = name

\* the callback before the latest was of the given kind, for the file of that name
Earlier(kind, name) ==
  Len(completed) = 2 /\ completed[2].kind = kind /\ completed[2].name = name

\* the reader r calls back in this step, in the given way
StepOf(r, kind) ==
  /\ r \notin readers'
  /\ completed' # completed
  /\ Head(completed') = [id |-> r.id, kind |-> kind, name |-> r.file.name]

\* the field parses to a finite number; a missing field parses as ''
CoordOk(row, key) == key \in DOMAIN row /\ IsFinite(parseFloat(row[key]))

ValidRows(data) == {i \in 1..Len(data) : CoordOk(data[i], LatKey) /\ CoordOk(data[i], LngKey)}

\* the index in data of the j-th row with valid coordinates
NthValid(data, j) ==
  CHOOSE i \in ValidRows(data) : Cardinality({k \in ValidRows(data) : k <= i}) = j

\* points holds one point per row with valid coordinates, in order
KeptExactly(data, points) ==
  /\ Len(points) = Cardinality(ValidRows(data))
  /\ \A j \in 1..Len(points) :
       /\ points[j].lat = parseFloat(data[NthValid(data, j)][LatKey])
       /\ points[j].lng = parseFloat(data[NthValid(data, j)][LngKey])

\* C1: every displayed point has a finite latitude and a finite longitude;
\* when a parse completes the new point list holds exactly the rows whose
\* latitude and longitude both parse to finite numbers, and a completion
\* without parser errors leaves the error message as it was.
C1_FiniteCoordinates ==
  /\ [](\A i \in 1..Len(rows) : IsFinite(rows[i].lat) /\ IsFinite(rows[i].lng))
  /\ [][\A r \in readers :
          StepOf(r, "complete") =>
            /\ KeptExactly(r.file.result.data, rows')
            /\ (r.file.result.errors = <<>> => parseError' = parseError)]_vars

\* a.csv was parsed: two of its four rows were dropped, the row whose
\* latitude is "1x" was kept, and no error message is shown
C1_Witness ==
  /\ Latest("complete", "a.csv")
  /\ Len(rows) = 2
  /\ rows[2].lat = Fin(FALSE, 1, 0)
  /\ parseError = ""

ClaimOrder == <<"E10", "E5", "B7S", "B7P", "B10", "HVO">>

\* positions in the order whose fuel type has a non-empty price
Priced(prices) ==
  {i \in 1..Len(ClaimOrder) : ClaimOrder[i] \in DOMAIN prices /\ prices[ClaimOrder[i]] # <<>>}

FirstPriced(prices) ==
  ClaimOrder[CHOOSE i \in Priced(prices) : \A j \in Priced(prices) : i <= j]

\* C2: the label and the numeric value both come from the first fuel type
\* in the order E10, E5, B7S, B7P, B10, HVO that has a non-empty price, and
\* both are null when there is none.
C2_SameFirstFuelType ==
  ret # Null =>
    IF Priced(arg) = {} THEN Val(ret).label = Null /\ Val(ret).value = Null
    ELSE /\ Val(ret).label = Some(formatPriceLabel(arg[FirstPriced(arg)]))
         /\ Val(ret).value = toPounds(arg[FirstPriced(arg)])

\* E10 is empty, E5 is 7 pence and B7S is 1 penny: the label and the value
\* are those of E5
C2_Witness ==
  /\ ret # Null
  /\ DOMAIN arg = {"E10", "E5", "B7S"}
  /\ arg["E10"] = <<>> /\ arg["E5"] = <<"7">> /\ arg["B7S"] = <<"1">>
  /\ Val(ret).label = Some(<<"£", "0", ".", "0", "7">>)
  /\ Val(ret).value = Some(Fin(FALSE, 7, -2))

AllZeros(ds) == \A i \in 1..Len(ds) : ds[i] = "0"

RECURSIVE StripLeadingZeros(_)
StripLeadingZeros(ds) ==
  IF Len(ds) > 1 /\ Head(ds) = "0" THEN StripLeadingZeros(Tail(ds)) ELSE ds

\* the natural number written by the digits ds is |m * 10^shift| rounded to
\* an integer (either way on a tie)
Nearest(ds, m, shift) ==
  IF m = 0 THEN AllZeros(ds)
  ELSE IF shift >= 0 THEN StripLeadingZeros(ds) = IntToDigits(m) \o Zeros(shift)
  ELSE IF 0 - shift > 8 THEN AllZeros(ds)
  ELSE /\ Len(StripLeadingZeros(ds)) <= 9
       /\ 2 * DigitsToInt(ds) * Pow10(0 - shift) - 2 * m <= Pow10(0 - shift)
       /\ 2 * m - 2 * DigitsToInt(ds) * Pow10(0 - shift) <= Pow10(0 - shift)

\* u is digits, a point and exactly k digits, and writes |x| rounded to k decimals
IsUnsignedDecimal(u, x, k) ==
  /\ Len(u) >= k + 2
  /\ u[Len(u) - k] = "."
  /\ \A i \in 1..Len(u) : i # Len(u) - k => u[i] \in DigitChars
  /\ Nearest(Take(u, Len(u) - k - 1) \o Drop(u, Len(u) - k), x.m, x.e + k)

\* t writes the finite number x with exactly k decimals
IsDecimal(t, x, k) ==
  IF t # <<>> /\ Head(t) = "-" THEN x.neg /\ x.m # 0 /\ IsUnsignedDecimal(Tail(t), x, k)
  ELSE (x.neg => Nearest(<<"0">>, x.m, x.e + k)) /\ IsUnsignedDecimal(t, x, k)

IsPounds(s, x, k) == s # <<>> /\ Head(s) = "£" /\ IsDecimal(Tail(s), x, k)

Hundredth(p) == Fin(p.neg, p.m, p.e - 2)

FormatsAs(r, raw, p) ==
  IF IsFinite(p)
  THEN /\ IsPounds(r.label, Hundredth(p), 2)
       /\ IsPounds(r.value, Hundredth(p), 3)
       /\ r.pounds # Null
       /\ IsFinite(Val(r.pounds))
       /\ NumEq(Val(r.pounds), Hundredth(p))
  ELSE r.label = raw /\ r.value = raw /\ r.pounds = Null

\* C3: for a raw price that parses to a finite number p the label is the
\* pound sign and p/100 with exactly two decimals, the popup value the pound
\* sign and p/100 with exactly three decimals, and toPounds is p/100; for any
\* other raw price the formatters return it unchanged and toPounds is null.
C3_TwoAndThreeDecimals == ret # Null => FormatsAs(Val(ret), arg, parseFloat(arg))

PointAgrees(point, row) ==
  /\ (point.displayPrice # Null) <=> point.hasPrices
  /\ point.hasPrices <=> \E key \in PriceColumns : key \in DOMAIN row /\ row[key] # <<>>

\* C7: displayPrice is non-null exactly when hasPrices is true, and hasPrices
\* is true exactly when one of the six price columns of the row is non-empty.
C7_DisplayPriceIffHasPrices ==
  ret # Null => \A i \in 1..Len(Val(ret)) : PointAgrees(Val(ret)[i], arg)

\* the file shown as loaded
ShownFile == CHOOSE f \in Files : f.name = fileName

ExpectedError(result) == IF result.errors # <<>> THEN result.errors[1] ELSE ""

ShowsResultOf(f, kind) ==
  CASE kind = "reject"     -> rows = <<>> /\ parseError = NotCsvMessage
    [] kind = "complete"   -> rows = PointsOf(f.result.data)
                              /\ parseError = ExpectedError(f.result)
    [] kind = "parseerror" -> parseError = f.result.message
    [] kind = "readerror"  -> parseError = ReadErrorMessage

\* the ways the read of the file f can call back
Outcomes(f) ==
  {"readerror"} \cup (IF LooksNotCsv(f.text) THEN {"reject"}
                      ELSE IF f.result.kind = "complete" THEN {"complete"}
                      ELSE {"parseerror"})

\* C9: once no read is pending, the displayed points and the error message
\* are the ones produced from the last selected file, whose name is shown.
C9_LatestFileWins ==
  (readers = {} /\ selected > 0) =>
    \E kind \in Outcomes(ShownFile) :
      /\ ShowsResultOf(ShownFile, kind)
      /\ Head(completed).id = selected => Head(completed).kind = kind

\* number of white space characters at the head of text
LeadingSpace(text) ==
  CHOOSE n \in 0..Len(text) :
    /\ \A i \in 1..n : text[i] \in {" ", "\n", "\t"}
    /\ n < Len(text) => text[n + 1] \notin {" ", "\n", "\t"}

HasPrefixAt(text, n, prefix) ==
  /\ Len(text) >= n + Len(prefix)
  /\ \A i \in 1..Len(prefix) : text[n + i] = prefix[i]

\* after its leading white space the text has no comma, or starts with
\* <!DOCTYPE or <html
ClaimNotCsv(text) ==
  \/ \A i \in LeadingSpace(text) + 1..Len(text) : text[i] # ","
  \/ HasPrefixAt(text, LeadingSpace(text), <<"<", "!", "D", "O", "C", "T", "Y", "P", "E">>)
  \/ HasPrefixAt(text, LeadingSpace(text), <<"<", "h", "t", "m", "l">>)

\* C4: when a read completes with a text that does not look like CSV, the
\* error message becomes the fixed message, the point list becomes empty and
\* the parser is not run (the callback is the rejection, not a parse).
C4_NonCsvRejected ==
  [][\A r \in readers :
       (ClaimNotCsv(r.file.text) /\ r \notin readers' /\ ~StepOf(r, "readerror")) =>
         /\ StepOf(r, "reject")
         /\ parseError' =
              "This file does not look like the CSV (it looks like HTML or has no commas). Please re-download the CSV and try again."
         /\ rows' = <<>>]_vars

\* d.html (white space, then <html, with a comma) was rejected after a.csv
\* had been displayed
C4_Witness ==
  /\ Latest("reject", "d.html")
  /\ Earlier("complete", "a.csv")
  /\ parseError = NotCsvMessage
  /\ rows = <<>>

NumericRows == {i \in 1..Len(rows) : rows[i].displayPriceValue # Null}

PriceAt(i) == Val(rows[i].displayPriceValue)

\* x is the element of index k (from 0) of the numeric prices in ascending order
OrderStatistic(x, k) ==
  /\ \E i \in NumericRows : PriceAt(i) = x
  /\ Cardinality({i \in NumericRows : NumCmp(PriceAt(i), x) < 0}) <= k
  /\ k < Cardinality({i \in NumericRows : NumCmp(PriceAt(i), x) <= 0})

RangeIsPercentiles(range, n) ==
  IF n = 0 THEN range = Null
  ELSE /\ range # Null
       /\ OrderStatistic(Val(range).min, (n - 1) \div 10)
       /\ OrderStatistic(Val(range).max, (9 * (n - 1)) \div 10)
       /\ NumCmp(Val(range).min, Val(range).max) <= 0

\* C5: with n >= 1 numeric display prices the range is the elements of index
\* floor(0.1*(n-1)) and floor(0.9*(n-1)) of their ascending order, min <= max,
\* both are prices of displayed points; the range is null exactly when n = 0.
C5_RangeIsPercentiles ==
  ret # Null => RangeIsPercentiles(Val(ret), Cardinality(NumericRows))

\* eleven numeric prices and the lowest of them is below the range
C5_Witness ==
  /\ ret # Null
  /\ Cardinality(NumericRows) = 11
  /\ \E i \in NumericRows : NumCmp(PriceAt(i), Val(Val(ret)).min) < 0
  /\ \E i \in NumericRows : NumCmp(PriceAt(i), Val(Val(ret)).max) > 0

\* the colour c of a point of price x under the range lo..hi, all in units
ColourOf(c, x, lo, hi) ==
  IF lo = hi THEN c = [kind |-> "hex", hex |-> "#16a34a", num |-> 0, den |-> 1]
  ELSE /\ c.kind = "hsl"
       /\ c.den > 0
       /\ 0 <= c.num /\ c.num <= 120 * c.den
       /\ (x <= lo => c.num = 120 * c.den)
       /\ (x >= hi => c.num = 0)
       /\ c.num * (hi - lo) =
            (120 * (hi - lo) - 120 * Min2(hi - lo, Max2(0, x - lo))) * c.den

ColourOk(c, value, range) ==
  IF value = Null \/ range = Null
  THEN c = [kind |-> "hex", hex |-> "#16a34a", num |-> 0, den |-> 1]
  ELSE ColourOf(c, Units(Val(value)), Units(Val(range).min), Units(Val(range).max))

\* with a range of min < max, the hue does not increase with the price
Monotone(ca, a, cb, b, range) ==
  (/\ a # Null /\ b # Null /\ range # Null
   /\ Units(Val(range).min) < Units(Val(range).max)
   /\ Units(Val(a)) <= Units(Val(b)))
  => ca.num * cb.den >= cb.num * ca.den

\* C6: for min < max the hue is 120 - 120*t with t = (value-min)/(max-min)
\* clamped to [0, 1]: it lies in [0, 120], is 120 at or below min, 0 at or
\* above max, and never increases with the price; with min = max, no range
\* or no numeric price the colour is the default green.
C6_HueClampedAndMonotone ==
  ret # Null =>
    /\ ColourOk(Val(ret)[1], arg.a, arg.range)
    /\ ColourOk(Val(ret)[2], arg.b, arg.range)
    /\ Monotone(Val(ret)[1], arg.a, Val(ret)[2], arg.b, arg.range)

\* a price strictly inside the range and a price above it
C6_Witness ==
  /\ ret # Null
  /\ Val(ret)[1].kind = "hsl"
  /\ 0 < Val(ret)[1].num /\ Val(ret)[1].num < 120 * Val(ret)[1].den
  /\ Val(ret)[2].kind = "hsl"
  /\ Val(ret)[2].num = 0
  /\ Units(Val(arg.b)) > Units(Val(arg.range).max)

\* C8: when the parser completes with row errors, the error message is the
\* message of the first error and the point list is replaced by the points
\* of all parsed rows with valid coordinates.
C8_MalformedCsvStillShown ==
  [][\A r \in readers :
       (StepOf(r, "complete") /\ Len(r.file.result.errors) >= 1) =>
         /\ parseError' = r.file.result.errors[1]
         /\ KeptExactly(r.file.result.data, rows')
         /\ rows' = PointsOf(r.file.result.data)]_vars

\* b.csv (two row errors, two of four rows usable) is displayed after a.csv
C8_Witness ==
  /\ Latest("complete", "b.csv")
  /\ Earlier("complete", "a.csv")
  /\ parseError = "Too few fields"
  /\ Len(rows) = 2
  /\ rows[1].prices = [B7S |-> <<>>]

OnlyMessageChanges(message) ==
  /\ parseError' = message
  /\ rows' = rows
  /\ fileName' = fileName
  /\ tileCounts' = tileCounts

\* C10: the FileReader error callback sets the error message to 'Could not
\* read the file.' and the parser's error callback sets it to the error's
\* message; both leave the points, the file name and the tile counters.
C10_FailuresOnlySetMessage ==
  [][\A r \in readers :
       /\ StepOf(r, "readerror") => OnlyMessageChanges("Could not read the file.")
       /\ StepOf(r, "parseerror") => OnlyMessageChanges(r.file.result.message)]_vars

\* the points of a.csv are displayed next to the parser failure of g.csv,
\* selected after it, and a tile has loaded
C10_Witness ==
  /\ Latest("parseerror", "g.csv")
  /\ Earlier("complete", "a.csv")
  /\ fileName = "g.csv"
  /\ parseError = "Stream error"
  /\ Len(rows) = 2
  /\ tileCounts.loaded = 1

====
